---- MODULE Spec2Model ----
(***************************************************************************)
(* Model of the cross-token wallet intersection engine of soylana:         *)
(*   - cross_check_wallets   (backend/app/api/routes.py)                   *)
(*   - HolderScanClient      (backend/app/clients/holderscan.py)           *)
(*   - SolscanClient.get_all_token_traders (backend/app/clients/solscan.py)*)
(*                                                                         *)
(* A handler is split at its awaits: one action per gateway call, the      *)
(* gateway's answer being the action's input.                              *)
(*                                                                         *)
(* Representation of upstream data.  A page of n records is represented by *)
(* n (the length the code tests) and by what the records leave behind in   *)
(* the code's dict/set (the code only ever writes them to a dict keyed by  *)
(* address, or adds their endpoints to a set).  Strings that the code      *)
(* slices (token addresses, names) are sequences of characters.            *)
(***************************************************************************)
EXTENDS Integers, Sequences, FiniteSets, TLC

VARIABLES
    mode,                   \* which operation this behaviour runs
    min_usd_value,          \* cross_check_wallets: request parameter, Optional[float]
    iterated,               \* the order in which the loop of line 411 visited the set
    pc,                     \* position in the running operation
    body_token_addresses,   \* cross_check_wallets: token_addresses as received
    token_addresses,        \* token_addresses after line 326
    max_holders_per_token,  \* request parameter
    client,                 \* HolderScanClient / its httpx client
    idx,                    \* position of the for loop of line 338
    token_name,             \* locals of the loop body
    token_decimals,
    all_holders,
    offset,
    token_data,             \* dict, as the sequence of its items in insertion order
    all_holder_sets,
    response,               \* what the handler returned or raised
    log,                    \* gateway requests answered so far, with their outcome
    inflight,               \* gateway requests sent and not yet answered
    endpoint,               \* single-resource endpoints: the client method called
    fetched,                \* get_all_token_traders: endpoints of the transfers received so far
    token_address,          \* get_all_token_traders: parameters
    max_pages,
    traders,                \* get_all_token_traders: locals
    page,
    outcome,                \* get_all_token_traders: "returned" or "raised"
    delays                  \* get_all_token_traders: asyncio.sleep calls completed

vars == << mode, min_usd_value, iterated, pc, body_token_addresses, token_addresses, max_holders_per_token,
           client, idx, token_name, token_decimals, all_holders, offset,
           token_data, all_holder_sets, response, log, inflight, endpoint,
           fetched, token_address, max_pages, traders, page, outcome, delays >>

crossVars == << body_token_addresses, token_addresses, max_holders_per_token,
                client, idx, token_name, token_decimals, all_holders, offset,
                token_data, all_holder_sets, response, iterated >>

traderVars == << token_address, max_pages, traders, page, outcome, fetched, delays >>

----------------------------------------------------------------------------
(* Program constants *)

batch_size == 100          \* routes.py:354
MinTokens == 2             \* routes.py:320
MaxTokens == 10            \* routes.py:322
MaxLimit == 100            \* holderscan.py:191  min(limit, 100)
NamePrefixLen == 8         \* routes.py:344, 348  token_address[:8]
TransferPageSize == 100    \* solscan.py:182, 202

(* Bounds of the model *)

MaxPagesBound == 4         \* max_pages ranges over 0..MaxPagesBound
LongListExtra == 1         \* token lists of MaxTokens .. MaxTokens+LongListExtra entries
MaxDistinctTransfers == 1  \* distinct transfer records on one page

----------------------------------------------------------------------------
(* Values *)

None == [isNone |-> TRUE, v |-> 0]
NoneStr == [isNone |-> TRUE, v |-> << >>]
Some(x) == [isNone |-> FALSE, v |-> x]

\* Python truthiness of an Optional[int] / Optional[float] / Optional[str]
TruthyNum(o) == (~o.isNone) /\ o.v # 0
TruthyStr(o) == (~o.isNone) /\ o.v # << >>

\* `x or 0`
OrZero(o) == IF TruthyNum(o) THEN o.v ELSE 0

Min(a, b) == IF a < b THEN a ELSE b

\* s[:k] of a Python string
Prefix(s, k) == SubSeq(s, 1, Min(k, Len(s)))

TokenA == << "S", "o", "1", "1", "1", "1", "1", "1", "1", "A" >>
TokenB == << "S", "o", "1", "1", "1", "1", "1", "1", "1", "B" >>
TokenAddrs == { TokenA, TokenB }

\* min_usd_value as received: absent, or a threshold
MinUsdChoices == { None, Some(1000) }

Wallets == { "W1", "W2" }

\* token lists a caller may post
Cyclic(n) == [ i \in 1..n |-> IF i % 2 = 1 THEN TokenA ELSE TokenB ]
TokenLists ==
    { << >>, << TokenA >>, << TokenA, TokenA >>, << TokenA, TokenB >>,
      << TokenB, TokenA, TokenB >> }
    \cup { Cyclic(n) : n \in MaxTokens .. (MaxTokens + LongListExtra) }

MaxHoldersChoices == { -1, 0, 1, 100, 150 }

\* answers of GET /{chain}/tokens/{address}  (models/token.py Token)
TokenInfos ==
    { [ name |-> Some(<< "A", "l", "f", "a" >>), symbol |-> NoneStr, decimals |-> Some(6) ],
      [ name |-> Some(<< >>), symbol |-> Some(<< "B", "E", "T" >>), decimals |-> None ],
      [ name |-> NoneStr, symbol |-> NoneStr, decimals |-> Some(0) ] }

\* holder records as answered (models/holder.py Holder), without the address
Rich == [ amount |-> Some(2500000), rank |-> Some(1) ]
Small == [ amount |-> Some(50), rank |-> Some(2) ]
Blank == [ amount |-> None, rank |-> None ]

PageLens == { 0, 1, batch_size }

\* A holder page: its length and the records by address (the last record of
\* an address on the page, which is the one the dict keeps)
HolderPages ==
    { [ n |-> 0, holders |-> << >> ],
      [ n |-> 1, holders |-> [ w \in { "W1" } |-> Rich ] ],
      [ n |-> 1, holders |-> [ w \in { "W2" } |-> Small ] ],
      [ n |-> batch_size, holders |-> [ w \in { "W1", "W2" } |-> IF w = "W1" THEN Rich ELSE Small ] ],
      [ n |-> batch_size, holders |-> [ w \in { "W1", "W2" } |-> Blank ] ],
      [ n |-> batch_size, holders |-> [ w \in { "W2" } |-> Rich ] ] }

EmptyMap == << >>

\* solscan.py:196, 198
BurnAddress == "11111111111111111111111111111111"

NoneAddr == [ isNone |-> TRUE, v |-> "" ]

\* what transfer.get("from_address") / .get("to_address") may give
Endpoints == { Some(w) : w \in Wallets } \cup { Some(BurnAddress), Some(""), NoneAddr }

TransferRecs == [ from_address : Endpoints, to_address : Endpoints ]

\* A transfer page: its length and the distinct transfers on it
RECURSIVE TransferSets(_)
TransferSets(k) ==
    IF k = 0 THEN { {} }
    ELSE { s \cup { r } : s \in TransferSets(k - 1), r \in TransferRecs }

TransferPages ==
    { [ n |-> 0, transfers |-> {} ] }
    \cup { [ n |-> 1, transfers |-> { r } ] : r \in TransferRecs }
    \cup { [ n |-> TransferPageSize, transfers |-> s ] : s \in TransferSets(MaxDistinctTransfers) }

----------------------------------------------------------------------------
(* Pure helpers of cross_check_wallets *)

RECURSIVE DedupFrom(_, _)
DedupFrom(s, seen) ==
    IF s = << >> THEN << >>
    ELSE IF Head(s) \in seen THEN DedupFrom(Tail(s), seen)
         ELSE << Head(s) >> \o DedupFrom(Tail(s), seen \cup { Head(s) })

\* variant: the duplicates are left in the list
Dedup_Missing(s) == s

\* list(dict.fromkeys(token_addresses))
Dedup(s) == DedupFrom(s, {})

\* variant: the upper length check is missing
Valid_NoUpperCheck(s) == ~(Len(s) < MinTokens)

\* the request gets past the two length checks
Valid(s) == ~(Len(s) < MinTokens) /\ ~(Len(s) > MaxTokens)

\* token_info.name or token_info.symbol or token_address[:8]
NameOf(info, addr) ==
    IF TruthyStr(info.name) THEN info.name.v
    ELSE IF TruthyStr(info.symbol) THEN info.symbol.v
    ELSE Prefix(addr, NamePrefixLen)

\* the for loop of lines 367-371 applied to one page
MergePage(holders, p) ==
    [ w \in (DOMAIN holders) \cup (DOMAIN p.holders) |->
        IF w \in DOMAIN p.holders
        THEN [ amount |-> OrZero(p.holders[w].amount),
               rank |-> OrZero(p.holders[w].rank) ]
        ELSE holders[w] ]

\* variant: the ceiling itself is still fetched
LoopGuard_Inclusive(off, max) == off <= max

\* while offset < max_holders_per_token
LoopGuard(off, max) == off < max

\* variant: a short page does not end the loop
HolderPageShort_Never(n) == FALSE

\* line 376: len(holder_response.holders) < batch_size
HolderPageShort(n) == n < batch_size

\* token_data[addr] = entry, on a dict kept as its item sequence
DictSet(d, entry) ==
    IF \E i \in 1..Len(d) : d[i].address = entry.address
    THEN [ i \in 1..Len(d) |-> IF d[i].address = entry.address THEN entry ELSE d[i] ]
    ELSE Append(d, entry)

DictGet(d, addr) == d[CHOOSE i \in 1..Len(d) : d[i].address = addr]

\* holderscan.py:54, solscan.py:75: the answer is good when its status is 200
StatusOk == 200

\* no HTTP answer at all: httpx raised (timeout, connection error)
NoStatus == 0

\* statuses an upstream may answer instead of 200
UpstreamStatuses == { 404, 503 }

\* what a failed page or token-info fetch of the loops may have met
FetchFailures == { NoStatus, 503 }

\* a gateway request as sent
Call(kind, token, cursor, limit) ==
    [ kind |-> kind, token |-> token, cursor |-> cursor, limit |-> limit ]

\* a gateway request with its outcome: the status answered and the number
\* of items of the page
Req(kind, token, cursor, limit, status, n) ==
    [ kind |-> kind, token |-> token, cursor |-> cursor, limit |-> limit,
      status |-> status, ok |-> (status = StatusOk), n |-> n ]

\* the client methods the single-resource endpoints call (routes.py:28-282)
Resources ==
    { "list_tokens", "get_token", "get_token_stats", "get_token_pnl",
      "get_wallet_categories", "get_supply_breakdown", "get_holders",
      "get_holder_deltas", "get_holder_breakdowns", "get_wallet_stats" }

\* `e.status_code or 500`
StatusOr500(st) == IF st # 0 THEN st ELSE 500

\* what the caller gets: an HTTP status and, on success, the JSON body
\* a response without the "query" member
NoQuery == [ token_count |-> 0, max_holders_per_token |-> 0, min_usd_value |-> None ]

\* lines 458-462: the echo of the request's parameters
Query(addrs, max, min_usd) ==
    [ token_count |-> Len(addrs), max_holders_per_token |-> max, min_usd_value |-> min_usd ]

NoResponse ==
    [ status |-> 0, body |-> FALSE, common_wallets |-> << >>, tokens |-> << >>,
      total_common |-> 0, query |-> NoQuery ]

ErrorResponse(code) ==
    [ status |-> code, body |-> FALSE, common_wallets |-> << >>, tokens |-> << >>,
      total_common |-> 0, query |-> NoQuery ]

RECURSIVE IntersectFrom(_, _, _)
IntersectFrom(sets, i, acc) ==
    IF i > Len(sets) THEN acc
    ELSE IntersectFrom(sets, i + 1, acc \cap sets[i])

\* variant: min_usd_value is applied as a threshold on the amounts held
CommonWallets_AboveMinUsd(sets) ==
    LET all == IntersectFrom(sets, 2, sets[1])
    IN  IF min_usd_value.isNone THEN all
        ELSE { w \in all : \A k \in 1..Len(token_data) :
                               token_data[k].holders[w].amount >= min_usd_value.v }

\* variant: the fold starts one set too late
CommonWallets_SkipSecond(sets) == IntersectFrom(sets, 3, sets[1])

\* lines 402-404: all_holder_sets[0] intersected with every later set
CommonWallets(sets) == IntersectFrom(sets, 2, sets[1])

Pow10(d) == IF d <= 0 THEN 1 ELSE 10 ^ d

\* variant: the amount is not divided
Holding_Unadjusted(data, w) ==
    LET known == w \in DOMAIN data.holders
        amount == IF known THEN data.holders[w].amount ELSE 0
        rank == IF known THEN data.holders[w].rank ELSE 0
    IN  [ token_address |-> data.address,
          token_name |-> data.name,
          raw_amount |-> amount,
          adjusted_amount |-> [ num |-> amount, den |-> 1 ],
          rank |-> rank ]

\* lines 416-428: one entry of wallet_holdings; adjusted_amount is the
\* quotient num/den
Holding(data, w) ==
    LET known == w \in DOMAIN data.holders
        amount == IF known THEN data.holders[w].amount ELSE 0
        rank == IF known THEN data.holders[w].rank ELSE 0
    IN  [ token_address |-> data.address,
          token_name |-> data.name,
          raw_amount |-> amount,
          adjusted_amount |-> IF data.decimals > 0
                              THEN [ num |-> amount, den |-> Pow10(data.decimals) ]
                              ELSE [ num |-> amount, den |-> 1 ],
          rank |-> rank ]

\* lines 411-434: the record of one common wallet
WalletResult(td, w) ==
    [ wallet_address |-> w,
      holdings |-> [ i \in 1..Len(td) |-> Holding(td[i], w) ],
      tokens_held |-> Len(td) ]

RECURSIVE SumRanks(_, _)
SumRanks(hs, i) ==
    IF i > Len(hs) THEN [ sum |-> 0, n |-> 0 ]
    ELSE LET rest == SumRanks(hs, i + 1)
         IN  IF hs[i].rank > 0
             THEN [ sum |-> rest.sum + hs[i].rank, n |-> rest.n + 1 ]
             ELSE rest

\* avg_rank: sum(ranks) / len(ranks), n = 0 standing for float("inf")
avg_rank(wallet) == SumRanks(wallet.holdings, 1)

\* variant: the sort is descending
KeyLess_Descending(a, b) ==
    IF b.n = 0 THEN FALSE
    ELSE IF a.n = 0 THEN TRUE
    ELSE b.sum * a.n < a.sum * b.n

\* a < b on the keys avg_rank returns
KeyLess(a, b) ==
    IF a.n = 0 THEN FALSE
    ELSE IF b.n = 0 THEN TRUE
    ELSE a.sum * b.n < b.sum * a.n

\* insertion of x behind every element whose key is not greater
RECURSIVE InsertSorted(_, _)
InsertSorted(x, s) ==
    IF s = << >> THEN << x >>
    ELSE IF KeyLess(avg_rank(x), avg_rank(Head(s))) THEN << x >> \o s
         ELSE << Head(s) >> \o InsertSorted(x, Tail(s))

RECURSIVE StableSortFrom(_, _, _)
StableSortFrom(s, i, acc) ==
    IF i > Len(s) THEN acc
    ELSE StableSortFrom(s, i + 1, InsertSorted(s[i], acc))

\* result_wallets.sort(key=avg_rank): list.sort is stable
SortByAvgRank(s) == StableSortFrom(s, 1, << >>)

\* the orders in which `for wallet_address in common_wallets` may visit a set
IterationOrders(S) ==
    { s \in [ 1..Cardinality(S) -> S ] :
        \A i, j \in 1..Cardinality(S) : i # j => s[i] # s[j] }

\* lines 443-452
token_summary(addrs, td) ==
    [ i \in 1..Len(addrs) |->
        LET data == DictGet(td, addrs[i])
        IN  [ address |-> addrs[i], name |-> data.name, decimals |-> data.decimals,
              holders_fetched |-> data.total_holders_fetched ] ]

----------------------------------------------------------------------------
(* Initial states *)

Init ==
    /\ mode \in { "cross", "traders", "single" }
    /\ pc = "start"
    /\ body_token_addresses \in (IF mode = "cross" THEN TokenLists ELSE { << >> })
    /\ max_holders_per_token \in (IF mode = "cross" THEN MaxHoldersChoices ELSE { 0 })
    /\ token_addresses = << >>
    /\ client = "none"
    /\ idx = 0
    /\ token_name = << >>
    /\ token_decimals = 0
    /\ all_holders = EmptyMap
    /\ offset = 0
    /\ token_data = << >>
    /\ all_holder_sets = << >>
    /\ response = NoResponse
    /\ log = << >>
    /\ inflight = {}
    /\ endpoint \in (IF mode = "single" THEN Resources ELSE { "none" })
    /\ fetched = {}
    /\ token_address \in (IF mode \in { "traders", "single" } THEN TokenAddrs ELSE { << >> })
    /\ max_pages \in (IF mode = "traders" THEN 0..MaxPagesBound ELSE { 0 })
    /\ traders = {}
    /\ page = 0
    /\ outcome = "none"
    /\ delays = 0
    /\ min_usd_value \in (IF mode = "cross" THEN MinUsdChoices ELSE { None })
    /\ iterated = << >>

----------------------------------------------------------------------------
(* Gateway calls *)

\* the request the running operation sends at its current position
\* (holderscan.py:97, 191-199; solscan.py:136-153)
NextCall ==
    IF pc = "token_info" THEN Call("token_info", token_addresses[idx], 0, 0)
    ELSE IF pc = "holders"
         THEN Call("holders", token_addresses[idx], offset, Min(batch_size, MaxLimit))
    ELSE IF pc = "transfers"
         THEN Call("transfers", token_address, page, Min(TransferPageSize, MaxLimit))
    ELSE Call(endpoint, token_address, 0, 0)

\* `await client.<method>(...)`: _get_client opens the connection when there
\* is none or it was closed, the request leaves, and the coroutine waits
Send ==
    /\ pc \in { "token_info", "holders", "transfers", "call" }
    /\ inflight = {}
    /\ inflight' = { NextCall }
    /\ client' = IF mode \in { "cross", "single" } THEN "open" ELSE client
    /\ UNCHANGED << mode, min_usd_value, iterated, pc, body_token_addresses, token_addresses,
                    max_holders_per_token, idx, token_name, token_decimals,
                    all_holders, offset, token_data, all_holder_sets, response,
                    log, endpoint, traderVars >>

----------------------------------------------------------------------------
(* cross_check_wallets *)

\* lines 320-323: the request is refused before anything else happens
RejectRequest ==
    /\ mode = "cross" /\ pc = "start"
    /\ ~Valid(body_token_addresses)
    /\ response' = ErrorResponse(400)
    /\ pc' = "done"
    /\ UNCHANGED << mode, min_usd_value, iterated, body_token_addresses, token_addresses, max_holders_per_token,
                    client, idx, token_name, token_decimals, all_holders, offset,
                    token_data, all_holder_sets, log, inflight, endpoint, traderVars >>

\* variant: the token-info calls of all tokens are sent at once
AcceptRequest_PrefetchInfos ==
    /\ mode = "cross" /\ pc = "start"
    /\ Valid(body_token_addresses)
    /\ token_addresses' = Dedup(body_token_addresses)
    /\ client' = "open"
    /\ inflight' = { Call("token_info", token_addresses'[i], 0, 0) :
                       i \in 1..Len(token_addresses') }
    /\ token_data' = << >>
    /\ all_holder_sets' = << >>
    /\ idx' = 1
    /\ pc' = "token_info"
    /\ UNCHANGED << mode, min_usd_value, iterated, body_token_addresses, max_holders_per_token, token_name,
                    token_decimals, all_holders, offset, response, log, endpoint,
                    traderVars >>

\* lines 326-338: deduplicate, create the client, enter the for loop
AcceptRequest ==
    /\ mode = "cross" /\ pc = "start"
    /\ Valid(body_token_addresses)
    /\ token_addresses' = Dedup(body_token_addresses)
    /\ client' = "created"
    /\ token_data' = << >>
    /\ all_holder_sets' = << >>
    /\ idx' = 1
    /\ pc' = IF Len(token_addresses') >= 1 THEN "token_info" ELSE "intersect"
    /\ UNCHANGED << mode, min_usd_value, iterated, body_token_addresses, max_holders_per_token, token_name,
                    token_decimals, all_holders, offset, response, log, inflight,
                    endpoint, traderVars >>

\* lines 383-392 and the step of the for loop: the token's entry is stored
StoreToken(name, decimals, holders) ==
    /\ token_data' = DictSet(token_data,
                             [ address |-> token_addresses[idx],
                               name |-> name,
                               decimals |-> decimals,
                               holders |-> holders,
                               total_holders_fetched |-> Cardinality(DOMAIN holders) ])
    /\ all_holder_sets' = Append(all_holder_sets, DOMAIN holders)
    /\ idx' = idx + 1
    /\ pc' = IF idx + 1 <= Len(token_addresses) THEN "token_info" ELSE "intersect"

\* lines 341-356: the token-info call returns or raises, then the holder
\* loop is entered (or skipped when its guard is false at once)
EnterHolderLoop(name, decimals) ==
    /\ token_name' = name
    /\ token_decimals' = decimals
    /\ all_holders' = EmptyMap
    /\ offset' = 0
    /\ IF LoopGuard(0, max_holders_per_token)
       THEN /\ pc' = "holders"
            /\ UNCHANGED << token_data, all_holder_sets, idx >>
       ELSE StoreToken(name, decimals, EmptyMap)

TokenInfoOk ==
    /\ mode = "cross" /\ pc = "token_info" /\ inflight # {}
    /\ inflight' = {}
    /\ \E info \in TokenInfos :
         /\ log' = Append(log, Req("token_info", token_addresses[idx], 0, 0, StatusOk, 1))
         /\ EnterHolderLoop(NameOf(info, token_addresses[idx]), OrZero(info.decimals))
    /\ UNCHANGED << mode, min_usd_value, iterated, body_token_addresses, token_addresses, client,
                    max_holders_per_token, response, endpoint, traderVars >>

\* variant: no handler around the token-info call, the error reaches line 465
TokenInfoFail_Aborts ==
    /\ mode = "cross" /\ pc = "token_info" /\ inflight # {}
    /\ inflight' = {}
    /\ \E st \in FetchFailures :
         /\ log' = Append(log, Req("token_info", token_addresses[idx], 0, 0, st, 0))
         /\ response' = ErrorResponse(StatusOr500(st))
    /\ pc' = "close"
    /\ UNCHANGED << mode, min_usd_value, iterated, body_token_addresses, token_addresses, max_holders_per_token,
                    client, idx, token_name, token_decimals, all_holders, offset,
                    token_data, all_holder_sets, endpoint, traderVars >>

\* lines 346-349: the token-info call raised
TokenInfoFail ==
    /\ mode = "cross" /\ pc = "token_info" /\ inflight # {}
    /\ inflight' = {}
    /\ \E st \in FetchFailures :
         log' = Append(log, Req("token_info", token_addresses[idx], 0, 0, st, 0))
    /\ EnterHolderLoop(Prefix(token_addresses[idx], NamePrefixLen), 0)
    /\ UNCHANGED << mode, min_usd_value, iterated, body_token_addresses, token_addresses, client,
                    max_holders_per_token, response, endpoint, traderVars >>

\* the request client.get_holders sent (holderscan.py:191), with its outcome
HolderReq(status, n) ==
    Req("holders", token_addresses[idx], offset, Min(batch_size, MaxLimit), status, n)

\* lines 358-377: a holder page arrives
HolderPageOk ==
    /\ mode = "cross" /\ pc = "holders" /\ inflight # {}
    /\ inflight' = {}
    /\ \E p \in HolderPages :
         /\ log' = Append(log, HolderReq(StatusOk, p.n))
         /\ IF p.n = 0
            THEN /\ UNCHANGED << all_holders, offset >>
                 /\ StoreToken(token_name, token_decimals, all_holders)
            ELSE /\ all_holders' = MergePage(all_holders, p)
                 /\ offset' = offset + batch_size
                 /\ IF HolderPageShort(p.n) \/ ~LoopGuard(offset', max_holders_per_token)
                    THEN StoreToken(token_name, token_decimals, all_holders')
                    ELSE /\ pc' = "holders"
                         /\ UNCHANGED << token_data, all_holder_sets, idx >>
    /\ UNCHANGED << mode, min_usd_value, iterated, body_token_addresses, token_addresses, max_holders_per_token,
                    client, token_name, token_decimals, response, endpoint, traderVars >>

\* variant: the holders of the earlier pages are dropped with the failed page
HolderPageFail_DropsData ==
    /\ mode = "cross" /\ pc = "holders" /\ inflight # {}
    /\ inflight' = {}
    /\ \E st \in FetchFailures : log' = Append(log, HolderReq(st, 0))
    /\ all_holders' = EmptyMap
    /\ StoreToken(token_name, token_decimals, EmptyMap)
    /\ UNCHANGED << mode, min_usd_value, iterated, body_token_addresses, token_addresses, max_holders_per_token,
                    client, token_name, token_decimals, offset, response, endpoint,
                    traderVars >>

\* variant: no handler around the page fetch, the error reaches line 465
HolderPageFail_Propagates ==
    /\ mode = "cross" /\ pc = "holders" /\ inflight # {}
    /\ inflight' = {}
    /\ \E st \in FetchFailures :
         /\ log' = Append(log, HolderReq(st, 0))
         /\ response' = ErrorResponse(StatusOr500(st))
    /\ pc' = "close"
    /\ UNCHANGED << mode, min_usd_value, iterated, body_token_addresses, token_addresses, max_holders_per_token,
                    client, idx, token_name, token_decimals, all_holders, offset,
                    token_data, all_holder_sets, endpoint, traderVars >>

\* variant: the failed page is asked again
HolderPageFail_Retries ==
    /\ mode = "cross" /\ pc = "holders" /\ inflight # {}
    /\ inflight' = {}
    /\ \E st \in FetchFailures : log' = Append(log, HolderReq(st, 0))
    /\ UNCHANGED << mode, min_usd_value, iterated, pc, body_token_addresses, token_addresses,
                    max_holders_per_token, client, idx, token_name, token_decimals,
                    all_holders, offset, token_data, all_holder_sets, response,
                    endpoint, traderVars >>

\* lines 379-381: the page fetch raises; the loop is left
HolderPageFail ==
    /\ mode = "cross" /\ pc = "holders" /\ inflight # {}
    /\ inflight' = {}
    /\ \E st \in FetchFailures : log' = Append(log, HolderReq(st, 0))
    /\ StoreToken(token_name, token_decimals, all_holders)
    /\ UNCHANGED << mode, min_usd_value, iterated, body_token_addresses, token_addresses, max_holders_per_token,
                    client, token_name, token_decimals, all_holders, offset,
                    response, endpoint, traderVars >>

\* lines 394-463: intersection, result records, sort, summary, response
Intersect ==
    /\ mode = "cross" /\ pc = "intersect"
    /\ IF all_holder_sets = << >>
       THEN /\ response' = [ status |-> 200, body |-> TRUE, common_wallets |-> << >>,
                             tokens |-> << >>, total_common |-> 0, query |-> NoQuery ]
            /\ UNCHANGED iterated
       ELSE \E order \in IterationOrders(CommonWallets(all_holder_sets)) :
              LET result_wallets ==
                      SortByAvgRank([ i \in 1..Len(order) |->
                                        WalletResult(token_data, order[i]) ])
              IN  /\ iterated' = order
                  /\ response' = [ status |-> 200, body |-> TRUE,
                                   common_wallets |-> result_wallets,
                                   tokens |-> token_summary(token_addresses, token_data),
                                   total_common |-> Len(result_wallets),
                                   query |-> Query(token_addresses, max_holders_per_token,
                                                   min_usd_value) ]
    /\ pc' = "close"
    /\ UNCHANGED << mode, min_usd_value, body_token_addresses, token_addresses, max_holders_per_token,
                    client, idx, token_name, token_decimals, all_holders, offset,
                    token_data, all_holder_sets, log, inflight, endpoint, traderVars >>

\* variant: the finally clause is missing
Close_Skipped ==
    /\ mode \in { "cross", "single" } /\ pc = "close"
    /\ pc' = "done"
    /\ UNCHANGED << mode, min_usd_value, iterated, body_token_addresses, token_addresses, max_holders_per_token,
                    client, idx, token_name, token_decimals, all_holders, offset,
                    token_data, all_holder_sets, response, log, inflight, endpoint,
                    traderVars >>

\* `finally: await client.close()` of every handler (routes.py:44-45, 61-62,
\* ..., 471-472) and holderscan.py:44-47
Close ==
    /\ mode \in { "cross", "single" } /\ pc = "close"
    /\ client' = IF client = "open" THEN "closed" ELSE client
    /\ pc' = "done"
    /\ UNCHANGED << mode, min_usd_value, iterated, body_token_addresses, token_addresses, max_holders_per_token,
                    idx, token_name, token_decimals, all_holders, offset,
                    token_data, all_holder_sets, response, log, inflight, endpoint,
                    traderVars >>

----------------------------------------------------------------------------
(* The single-resource endpoints: list_tokens, get_token, ..., get_wallet_stats *)

singleLocals == << body_token_addresses, token_addresses, max_holders_per_token,
                   idx, token_name, token_decimals, all_holders, offset,
                   token_data, all_holder_sets, iterated >>

\* `client = get_client()` (routes.py:34, 51, 68, ...)
SingleStart ==
    /\ mode = "single" /\ pc = "start"
    /\ client' = "created"
    /\ pc' = "call"
    /\ UNCHANGED << mode, min_usd_value, singleLocals, response, log, inflight, endpoint, traderVars >>

\* the call returned and its model was dumped (routes.py:53-54)
SingleOk ==
    /\ mode = "single" /\ pc = "call" /\ inflight # {}
    /\ inflight' = {}
    /\ log' = Append(log, Req(endpoint, token_address, 0, 0, StatusOk, 1))
    /\ response' = [ status |-> 200, body |-> TRUE, common_wallets |-> << >>,
                     tokens |-> << >>, total_common |-> 0, query |-> NoQuery ]
    /\ pc' = "close"
    /\ UNCHANGED << mode, min_usd_value, singleLocals, client, endpoint, traderVars >>

\* _request raised HolderScanError(status_code) (holderscan.py:54-58) and
\* the handler turned it into an HTTPException (routes.py:55-57)
SingleStatusError ==
    /\ mode = "single" /\ pc = "call" /\ inflight # {}
    /\ inflight' = {}
    /\ \E st \in UpstreamStatuses :
         /\ log' = Append(log, Req(endpoint, token_address, 0, 0, st, 0))
         /\ response' = ErrorResponse(StatusOr500(st))
    /\ pc' = "close"
    /\ UNCHANGED << mode, min_usd_value, singleLocals, client, endpoint, traderVars >>

\* anything else was raised: the transport failed, or the answer did not
\* fit the model (routes.py:58-60)
SingleOtherError ==
    /\ mode = "single" /\ pc = "call" /\ inflight # {}
    /\ inflight' = {}
    /\ \E st \in { NoStatus, StatusOk } :
         log' = Append(log, Req(endpoint, token_address, 0, 0, st, 0))
    /\ response' = ErrorResponse(500)
    /\ pc' = "close"
    /\ UNCHANGED << mode, min_usd_value, singleLocals, client, endpoint, traderVars >>

----------------------------------------------------------------------------
(* SolscanClient.get_all_token_traders *)

\* variant: the burn address is not excluded
Qualifies_NoBurnCheck(a) == (~a.isNone) /\ a.v # ""

\* `if addr and addr != "1111..."`
Qualifies(a) == (~a.isNone) /\ a.v # "" /\ a.v # BurnAddress

\* transfer.get("from_address"), transfer.get("to_address") of a page's transfers
EndpointsOf(p) ==
    { t.from_address : t \in p.transfers } \cup { t.to_address : t \in p.transfers }

\* solscan.py:191-199 applied to one page
AddTraders(ts, p) ==
    ts \cup { t.from_address.v : t \in { u \in p.transfers : Qualifies(u.from_address) } }
       \cup { t.to_address.v : t \in { u \in p.transfers : Qualifies(u.to_address) } }

\* variant: the last allowed page is not fetched
PageGuard_Exclusive(pg, max) == pg < max

\* while page <= max_pages
PageGuard(pg, max) == pg <= max

\* solscan.py:202: len(transfers) < 100
TransferPageShort(n) == n < TransferPageSize

\* the request get_token_transfers sent (solscan.py:136-142), with its outcome
TransferReq(status, n) ==
    Req("transfers", token_address, page, Min(TransferPageSize, MaxLimit), status, n)

\* solscan.py:174-177
TradersStart ==
    /\ mode = "traders" /\ pc = "start"
    /\ traders' = {}
    /\ page' = 1
    /\ IF PageGuard(1, max_pages)
       THEN pc' = "transfers" /\ UNCHANGED outcome
       ELSE pc' = "done" /\ outcome' = "returned"
    /\ UNCHANGED << mode, min_usd_value, crossVars, log, inflight, endpoint, fetched,
                    token_address, max_pages, delays >>

\* variant: the next page is requested without the delay
TransferPageOk_NoDelay ==
    /\ mode = "traders" /\ pc = "transfers" /\ inflight # {}
    /\ inflight' = {}
    /\ \E p \in TransferPages :
         /\ log' = Append(log, TransferReq(StatusOk, p.n))
         /\ fetched' = fetched \cup EndpointsOf(p)
         /\ IF p.n = 0
            THEN /\ pc' = "done" /\ outcome' = "returned"
                 /\ UNCHANGED << traders, page >>
            ELSE /\ traders' = AddTraders(traders, p)
                 /\ IF TransferPageShort(p.n)
                    THEN /\ pc' = "done" /\ outcome' = "returned"
                         /\ UNCHANGED page
                    ELSE /\ page' = page + 1
                         /\ IF PageGuard(page + 1, max_pages)
                            THEN pc' = "transfers" /\ UNCHANGED outcome
                            ELSE pc' = "done" /\ outcome' = "returned"
    /\ UNCHANGED << mode, min_usd_value, crossVars, endpoint, token_address, max_pages, delays >>

\* solscan.py:179-207: a transfer page arrives
TransferPageOk ==
    /\ mode = "traders" /\ pc = "transfers" /\ inflight # {}
    /\ inflight' = {}
    /\ \E p \in TransferPages :
         /\ log' = Append(log, TransferReq(StatusOk, p.n))
         /\ fetched' = fetched \cup EndpointsOf(p)
         /\ IF p.n = 0
            THEN /\ pc' = "done" /\ outcome' = "returned"
                 /\ UNCHANGED << traders, page >>
            ELSE /\ traders' = AddTraders(traders, p)
                 /\ IF TransferPageShort(p.n)
                    THEN /\ pc' = "done" /\ outcome' = "returned"
                         /\ UNCHANGED page
                    ELSE /\ page' = page + 1
                         /\ pc' = "sleep"
                         /\ UNCHANGED outcome
    /\ UNCHANGED << mode, min_usd_value, crossVars, endpoint, token_address, max_pages, delays >>

\* solscan.py:207 and the loop test that follows the sleep
Sleep ==
    /\ mode = "traders" /\ pc = "sleep"
    /\ delays' = delays + 1
    /\ IF PageGuard(page, max_pages)
       THEN pc' = "transfers" /\ UNCHANGED outcome
       ELSE pc' = "done" /\ outcome' = "returned"
    /\ UNCHANGED << mode, min_usd_value, crossVars, log, inflight, endpoint, fetched,
                    token_address, max_pages, traders, page >>

\* variant: no handler around the page fetch, SolscanError leaves the function
TransferPageStatusError_Raises ==
    /\ mode = "traders" /\ pc = "transfers" /\ inflight # {}
    /\ inflight' = {}
    /\ \E st \in UpstreamStatuses : log' = Append(log, TransferReq(st, 0))
    /\ pc' = "done"
    /\ outcome' = "raised"
    /\ UNCHANGED << mode, min_usd_value, crossVars, endpoint, fetched, token_address, max_pages, delays,
                    traders, page >>

\* solscan.py:209-211: _request raised SolscanError (status code not 200)
TransferPageStatusError ==
    /\ mode = "traders" /\ pc = "transfers" /\ inflight # {}
    /\ inflight' = {}
    /\ \E st \in UpstreamStatuses : log' = Append(log, TransferReq(st, 0))
    /\ pc' = "done"
    /\ outcome' = "returned"
    /\ UNCHANGED << mode, min_usd_value, crossVars, endpoint, fetched, token_address, max_pages, delays,
                    traders, page >>

\* solscan.py:73, 209: the transport raised (httpx timeout, connection error);
\* only SolscanError is caught, so the exception leaves the function
TransferPageTransportError ==
    /\ mode = "traders" /\ pc = "transfers" /\ inflight # {}
    /\ inflight' = {}
    /\ log' = Append(log, TransferReq(NoStatus, 0))
    /\ pc' = "done"
    /\ outcome' = "raised"
    /\ UNCHANGED << mode, min_usd_value, crossVars, endpoint, fetched, token_address, max_pages, delays,
                    traders, page >>

----------------------------------------------------------------------------

Next ==
    \/ Send
    \/ RejectRequest
    \/ AcceptRequest
    \/ TokenInfoOk
    \/ TokenInfoFail
    \/ HolderPageOk
    \/ HolderPageFail
    \/ Intersect
    \/ Close
    \/ SingleStart
    \/ SingleOk
    \/ SingleStatusError
    \/ SingleOtherError
    \/ TradersStart
    \/ TransferPageOk
    \/ Sleep
    \/ TransferPageStatusError
    \/ TransferPageTransportError

Spec == Init /\ [][Next]_vars

----------------------------------------------------------------------------
(* Properties *)

\* C1: in a holder-mode cross-check that passed validation, a wallet is in
\* common_wallets if and only if it was accumulated for every collected
\* token, and it is there once.
C1_CommonIsIntersection ==
    (mode = "cross" /\ response.body) =>
        LET cw == response.common_wallets
        IN  /\ \A w \in Wallets :
                 (\E i \in 1..Len(cw) : cw[i].wallet_address = w)
                 <=> (\A k \in 1..Len(all_holder_sets) : w \in all_holder_sets[k])
            /\ \A i, j \in 1..Len(cw) :
                 i # j => cw[i].wallet_address # cw[j].wallet_address

\* two tokens with different holder sets and exactly one common wallet
C1_Witness ==
    /\ mode = "cross" /\ pc = "done" /\ response.body
    /\ Len(all_holder_sets) = 2
    /\ all_holder_sets[1] = { "W1", "W2" }
    /\ all_holder_sets[2] = { "W2" }
    /\ Len(response.common_wallets) = 1
    /\ response.common_wallets[1].wallet_address = "W2"

\* C2: a token list of fewer than 2 or more than 10 entries is answered
\* with status 400; no client is created and no gateway request is issued.
C2_RejectedWithoutIO ==
    (mode = "cross" /\ (Len(body_token_addresses) < 2 \/ Len(body_token_addresses) > 10)) =>
        /\ client = "none"
        /\ log = << >>
        /\ inflight = {}
        /\ pc \in { "start", "done" }
        /\ pc = "done" => (response.status = 400 /\ ~response.body)

\* an over-long list has been refused
C2_Witness ==
    /\ mode = "cross" /\ pc = "done"
    /\ Len(body_token_addresses) = 11
    /\ response.status = 400
    /\ log = << >> /\ client = "none"

\* C3: duplicate token addresses are collapsed before any fetch: every
\* distinct address is collected once, in the order of first occurrence in
\* the input, and the per-token summary lists them in that order.
C3_DedupFirstSeenOrder ==
    mode = "cross" =>
        LET input == body_token_addresses
            First(a) == CHOOSE i \in 1..Len(input) :
                            input[i] = a /\ \A j \in 1..(i - 1) : input[j] # a
            infos == SelectSeq(log, LAMBDA r : r.kind = "token_info")
            summary == response.tokens
        IN  /\ \A i \in 1..Len(log) : \E k \in 1..Len(input) : input[k] = log[i].token
            /\ \A i, j \in 1..Len(infos) :
                 i < j => /\ infos[i].token # infos[j].token
                          /\ First(infos[i].token) < First(infos[j].token)
            /\ \A i, j, k \in 1..Len(log) :
                 (i < j /\ j < k /\ log[i].token = log[k].token)
                     => log[j].token = log[i].token
            /\ response.body =>
                 /\ { input[k] : k \in 1..Len(input) }
                        = { infos[i].token : i \in 1..Len(infos) }
                 /\ Len(summary) = Len(infos)
                 /\ \A i \in 1..Len(summary) : summary[i].address = infos[i].token

\* a list whose first token is repeated after the second one
C3_Witness ==
    /\ mode = "cross" /\ pc = "done" /\ response.body
    /\ body_token_addresses = << TokenB, TokenA, TokenB >>
    /\ Len(response.tokens) = 2
    /\ response.tokens[1].address = TokenB
    /\ response.tokens[2].address = TokenA

\* C4: once a cross-check is past validation, the list that is collected
\* and intersected has between 2 and 10 distinct token addresses.
C4_AtLeastTwoDistinct ==
    (mode = "cross" /\ client # "none") =>
        /\ Len(token_addresses) >= 2
        /\ Len(token_addresses) <= 10
        /\ \A i, j \in 1..Len(token_addresses) :
               i # j => token_addresses[i] # token_addresses[j]

\* C5: in both pagination loops, a page of fewer than 100 items (zero
\* included) is the last request of that token's collection.
C5_ShortPageIsLast ==
    \A i, j \in 1..Len(log) :
        ( /\ i < j
          /\ log[i].kind \in { "holders", "transfers" }
          /\ log[i].ok
          /\ log[i].n < 100 )
        => log[j].token # log[i].token

\* page 3 of a trader collection was short and the function has returned
\* without asking for page 4
C5_Witness ==
    /\ mode = "traders" /\ pc = "done" /\ outcome = "returned"
    /\ Len(log) = 3
    /\ log[3].cursor = 3 /\ log[3].ok /\ log[3].n = 1
    /\ max_pages > 3

\* C6: get_all_token_traders never requests more than max_pages pages, and
\* when max_pages >= 1, every page is full and no fetch fails, it requests
\* exactly the pages 1..max_pages.
C6_PageCeiling ==
    mode = "traders" =>
        /\ Len(log) <= (IF max_pages > 0 THEN max_pages ELSE 0)
        /\ ( /\ pc = "done"
             /\ max_pages >= 1
             /\ \A i \in 1..Len(log) : log[i].ok /\ log[i].n = 100 )
           => ( /\ Len(log) = max_pages
                /\ \A i \in 1..Len(log) :
                      log[i].kind = "transfers" /\ log[i].cursor = i )

\* max_pages = 2, two full pages, returned
C6_Witness ==
    /\ mode = "traders" /\ pc = "done" /\ outcome = "returned"
    /\ max_pages = 2
    /\ Len(log) = 2
    /\ \A i \in 1..Len(log) : log[i].ok /\ log[i].n = 100

\* C7: the first holder page of a token is requested at offset 0 with limit
\* 100, no holder page is requested at an offset >= max_holders_per_token,
\* so a token gets at most ceil(max_holders_per_token / 100) pages and none
\* when max_holders_per_token <= 0.
C7_OffsetBelowCeiling ==
    mode = "cross" =>
        LET pages(t) == { i \in 1..Len(log) : log[i].kind = "holders" /\ log[i].token = t }
            ceil == IF max_holders_per_token <= 0 THEN 0
                    ELSE (max_holders_per_token + 99) \div 100
        IN  /\ \A i \in 1..Len(log) :
                 log[i].kind = "holders" =>
                     /\ log[i].limit = 100
                     /\ log[i].cursor < max_holders_per_token
                     /\ (\A j \in pages(log[i].token) : j >= i) => log[i].cursor = 0
            /\ \A t \in TokenAddrs : Cardinality(pages(t)) <= ceil

\* a ceiling of 150 and a second page asked at offset 100
C7_Witness ==
    /\ mode = "cross" /\ max_holders_per_token = 150
    /\ \E i \in 2..Len(log) :
         /\ log[i].kind = "holders" /\ log[i].cursor = 100
         /\ log[i - 1].kind = "holders" /\ log[i - 1].cursor = 0

\* C8: the number of holders accumulated and reported for a token never
\* exceeds max_holders_per_token (stated for the positive ceilings, the
\* ones a count can stay under).
C8_FetchedWithinCeiling ==
    (mode = "cross" /\ max_holders_per_token > 0) =>
        /\ \A i \in 1..Len(token_data) :
               token_data[i].total_holders_fetched <= max_holders_per_token
        /\ \A i \in 1..Len(response.tokens) :
               response.tokens[i].holders_fetched <= max_holders_per_token

\* C9: when a holder page fetch fails, the token's pagination ends there
\* without a retry, the holders of its earlier pages are stored unchanged,
\* nothing is raised and the loop goes on with the next token.
C9_PageFailureKeepsPartial ==
    [][ ( /\ mode = "cross"
          /\ Len(log') = Len(log) + 1
          /\ log'[Len(log')].kind = "holders"
          /\ ~log'[Len(log')].ok )
        => ( /\ all_holders' = all_holders
             /\ Len(token_data') = idx
             /\ token_data'[idx].address = token_addresses[idx]
             /\ token_data'[idx].holders = all_holders
             /\ all_holder_sets' = Append(all_holder_sets, DOMAIN all_holders)
             /\ idx' = idx + 1
             /\ pc' = (IF idx < Len(token_addresses) THEN "token_info" ELSE "intersect")
             /\ response' = response
             /\ response.status = 0 ) ]_vars

\* the second page of the first token failed, its first page is kept, and
\* the second token was collected afterwards
C9_Witness ==
    /\ mode = "cross" /\ pc = "done" /\ response.status = 200
    /\ Len(log) >= 4
    /\ log[3].kind = "holders" /\ log[3].cursor = 100 /\ ~log[3].ok
    /\ log[4].kind = "token_info" /\ log[4].token # log[3].token
    /\ token_data[1].holders # EmptyMap

\* C10 as stated: a failed holder page fetch aborts the aggregation, the
\* request ends with an error response and without common_wallets.
C10_PageFailureAborts ==
    ( /\ mode = "cross" /\ pc = "done"
      /\ \E i \in 1..Len(log) : log[i].kind = "holders" /\ ~log[i].ok )
    => (response.status >= 500 /\ ~response.body)

\* C10 as amended: a failed holder page fetch does not abort the
\* aggregation, the request ends with status 200 and carries common_wallets
\* and one summary entry per collected token.
C10_PageFailureNotFatal ==
    ( /\ mode = "cross" /\ pc \in { "close", "done" }
      /\ \E i \in 1..Len(log) : log[i].kind = "holders" /\ ~log[i].ok )
    => ( /\ response.status = 200
         /\ response.body
         /\ Len(response.tokens) = Len(token_addresses)
         /\ response.total_common = Len(response.common_wallets) )

\* a page fetch failed and the answer still names a common wallet
C10_Witness ==
    /\ mode = "cross" /\ pc = "done"
    /\ \E i \in 1..Len(log) : log[i].kind = "holders" /\ ~log[i].ok
    /\ response.status = 200
    /\ response.total_common >= 1

\* C11: in get_all_token_traders, when the gateway answers page k with a
\* non-success status (SolscanError), no further page is requested, nothing is
\* raised, and the set returned is the one accumulated from pages 1..k-1.
C11_StatusErrorStopsAndReturns ==
    [][ /\ ( /\ mode = "traders"
             /\ Len(log') = Len(log) + 1
             /\ log'[Len(log')].status \notin { 200, 0 } )
           => ( /\ traders' = traders
                /\ outcome' = "returned"
                /\ pc' = "done"
                /\ inflight' = {} )
        /\ (mode = "traders" /\ pc = "done")
           => (log' = log /\ inflight' = inflight /\ traders' = traders) ]_vars

\* page 3 was answered with a status error after two full pages that brought
\* traders, and the function has returned them
C11_Witness ==
    /\ mode = "traders" /\ pc = "done" /\ outcome = "returned"
    /\ Len(log) = 3
    /\ log[3].cursor = 3 /\ log[3].status = 503
    /\ traders = { "W1", "W2" }

\* C12: a page fetch that fails by network timeout (no HTTP answer) only
\* ends that token's pagination, the data accumulated so far being kept; it
\* never aborts the enclosing operation, for holder pages and for transfer
\* pages alike.
C12_TimeoutKeepsPartial ==
    \A i \in 1..Len(log) :
        (log[i].kind \in { "holders", "transfers" } /\ log[i].status = 0) =>
            /\ outcome # "raised"
            /\ (mode = "cross" /\ pc = "done") => response.status = 200

\* C13: a failed token-info fetch never aborts collection: the token's name
\* is the first 8 characters of its address, its decimals are 0, its holder
\* pages are still fetched and the later tokens are still collected.
C13_TokenInfoFallback ==
    mode = "cross" =>
        \A i \in 1..Len(log) :
            (log[i].kind = "token_info" /\ ~log[i].ok) =>
                LET t == log[i].token
                    first8 == [ k \in 1..(IF Len(t) < 8 THEN Len(t) ELSE 8) |-> t[k] ]
                IN  /\ \A k \in 1..Len(token_data) :
                         token_data[k].address = t =>
                             (token_data[k].name = first8 /\ token_data[k].decimals = 0)
                    /\ max_holders_per_token > 0 =>
                         IF i < Len(log)
                         THEN /\ log[i + 1].kind = "holders"
                              /\ log[i + 1].token = t
                              /\ log[i + 1].cursor = 0
                         ELSE pc = "holders"
                    /\ response.status \in { 0, 200 }
                    /\ pc = "done" =>
                         /\ response.body
                         /\ Len(response.tokens) = Len(token_addresses)
                         /\ \A k \in 1..Len(token_addresses) :
                              \E j \in 1..Len(log) :
                                  log[j].kind = "token_info"
                                  /\ log[j].token = token_addresses[k]
                         /\ \A k \in 1..Len(response.tokens) :
                              response.tokens[k].address = t =>
                                  /\ response.tokens[k].name = first8
                                  /\ response.tokens[k].decimals = 0

\* the first token's info fetch failed, its holder page was fetched, the
\* second token was collected, and the summary shows the fallback
C13_Witness ==
    /\ mode = "cross" /\ pc = "done" /\ response.status = 200
    /\ Len(log) >= 4
    /\ log[1].kind = "token_info" /\ ~log[1].ok
    /\ log[2].kind = "holders" /\ log[2].token = log[1].token /\ log[2].n = 100
    /\ \E j \in 3..Len(log) : log[j].kind = "token_info" /\ log[j].ok
    /\ Len(response.tokens) = 2
    /\ response.tokens[1].name = << "S", "o", "1", "1", "1", "1", "1", "1" >>
    /\ response.tokens[1].decimals = 0
    /\ response.tokens[1].holders_fetched = 2

\* C14: every handler that acquired a provider client has closed its
\* connection when it completes, on the success path and on the error paths,
\* and no gateway request is sent on a client after it was closed.
C14_ClientClosedOnEveryExit ==
    /\ [] ( (mode \in { "cross", "single" } /\ pc = "done" /\ client # "none")
             => (client = "closed" /\ inflight = {}) )
    /\ [][ client = "closed"
             => (client' = "closed" /\ log' = log /\ inflight' = inflight) ]_vars

\* a single-resource endpoint met a transport failure, answered 500 and has
\* closed its client
C14_Witness ==
    /\ mode = "single" /\ pc = "done"
    /\ Len(log) = 1 /\ log[1].status = 0
    /\ response.status = 500
    /\ client = "closed"

\* C15: the trader set is exactly the set of non-empty from_address and
\* to_address values of the transfers fetched, minus the burn address
\* 11111111111111111111111111111111, which is never a member of it.
C15_TradersAreTransferEndpoints ==
    mode = "traders" =>
        /\ traders = { e.v : e \in { x \in fetched : (~x.isNone) /\ x.v # "" } }
                        \ { "11111111111111111111111111111111" }
        /\ "11111111111111111111111111111111" \notin traders

\* the burn address was an endpoint of a fetched transfer and the function
\* returned the other endpoint only
C15_Witness ==
    /\ mode = "traders" /\ pc = "done" /\ outcome = "returned"
    /\ Some("11111111111111111111111111111111") \in fetched
    /\ Some("W1") \in fetched
    /\ traders = { "W1" }

\* C16: common_wallets is in ascending order of the mean of the wallet's
\* ranks that are greater than zero, and the wallets without any such rank
\* come after all the others.
C16_SortedByMeanRank ==
    (mode = "cross" /\ response.body) =>
        LET cw == response.common_wallets
            Pos(w) == { k \in 1..Len(w.holdings) : w.holdings[k].rank > 0 }
            RECURSIVE Sum(_, _)
            Sum(w, S) == IF S = {} THEN 0
                         ELSE LET k == CHOOSE x \in S : TRUE
                              IN  w.holdings[k].rank + Sum(w, S \ { k })
            MeanLeq(a, b) == Sum(a, Pos(a)) * Cardinality(Pos(b))
                                <= Sum(b, Pos(b)) * Cardinality(Pos(a))
        IN  \A i, j \in 1..Len(cw) :
                i < j =>
                    /\ (Pos(cw[i]) = {}) => (Pos(cw[j]) = {})
                    /\ (Pos(cw[i]) # {} /\ Pos(cw[j]) # {}) => MeanLeq(cw[i], cw[j])

\* a wallet of mean rank 1 before a wallet of mean rank 3/2
C16_Witness ==
    /\ mode = "cross" /\ pc = "done" /\ response.body
    /\ Len(response.common_wallets) = 2
    /\ Len(response.common_wallets[1].holdings) = 2
    /\ response.common_wallets[1].holdings[1].rank = 1
    /\ response.common_wallets[1].holdings[2].rank = 1
    /\ response.common_wallets[2].holdings[1].rank = 2
    /\ response.common_wallets[2].holdings[2].rank = 1

\* C17: in every holding record, raw_amount is the amount last recorded for
\* the wallet in the token's holder map, and adjusted_amount is
\* raw_amount / 10^decimals when decimals > 0 and raw_amount when decimals
\* is 0 (so 2500000 with 6 decimals is 2.5).
C17_AmountsAdjusted ==
    (mode = "cross" /\ response.body) =>
        \A i \in 1..Len(response.common_wallets) :
            LET r == response.common_wallets[i]
            IN  /\ Len(r.holdings) = Len(token_data)
                /\ \A k \in 1..Len(token_data) :
                     LET data == token_data[k]
                         h == r.holdings[k]
                         d == data.decimals
                     IN  /\ h.token_address = data.address
                         /\ h.raw_amount = data.holders[r.wallet_address].amount
                         /\ h.adjusted_amount.num = h.raw_amount
                         /\ h.adjusted_amount.den = (IF d > 0 THEN 10 ^ d ELSE 1)
                         /\ (d = 6 /\ h.raw_amount = 2500000)
                              => 2 * h.adjusted_amount.num = 5 * h.adjusted_amount.den

\* W2's amount of the second page (2500000) replaced the one of the first
\* page under 6 decimals, and the other token fell back to 0 decimals
C17_Witness ==
    /\ mode = "cross" /\ pc = "done" /\ response.body
    /\ Len(token_data) = 2
    /\ token_data[1].decimals = 6 /\ token_data[2].decimals = 0
    /\ \E j \in 1..Len(log) : log[j].kind = "token_info" /\ ~log[j].ok
    /\ \E i \in 1..Len(response.common_wallets) :
         LET r == response.common_wallets[i]
         IN  /\ r.wallet_address = "W2"
             /\ r.holdings[1].raw_amount = 2500000
             /\ r.holdings[1].adjusted_amount = [ num |-> 2500000, den |-> 1000000 ]
             /\ r.holdings[2].raw_amount = 50
             /\ r.holdings[2].adjusted_amount = [ num |-> 50, den |-> 1 ]
    /\ \E j \in 2..Len(log) :
         /\ log[j].kind = "holders" /\ log[j].cursor = 100 /\ log[j].ok
         /\ log[j].token = token_data[1].address

\* C18: when the gateway of a single-resource endpoint fails with a
\* non-success upstream status, the endpoint answers a 5xx status.
C18_UpstreamErrorIsServerError ==
    ( /\ mode = "single" /\ pc \in { "close", "done" }
      /\ Len(log) = 1 /\ log[1].status \notin { 200, 0 } )
        => response.status \in 500..599

\* C19: in a holder-mode cross-check at most one gateway call is outstanding,
\* the calls are grouped by token in the order of the token list, each
\* group starts with the token-info fetch followed by the holder pages, and
\* a call for a token is only issued when every call of the earlier tokens
\* has completed.
C19_SequentialGroupedByToken ==
    mode = "cross" =>
        LET pos(t) == CHOOSE k \in 1..Len(token_addresses) : token_addresses[k] = t
        IN  /\ Cardinality(inflight) <= 1
            /\ \A i \in 1..Len(log) :
                 /\ \E k \in 1..Len(token_addresses) : token_addresses[k] = log[i].token
                 /\ log[i].kind \in { "token_info", "holders" }
                 /\ (log[i].kind = "token_info")
                      <=> (i = 1 \/ log[i - 1].token # log[i].token)
            /\ \A i, j \in 1..Len(log) :
                 i < j => pos(log[i].token) <= pos(log[j].token)
            /\ (Len(log) > 0) => pos(log[1].token) = 1
            /\ \A i \in 2..Len(log) :
                 pos(log[i].token) <= pos(log[i - 1].token) + 1
            /\ \A c \in inflight :
                 /\ \A i \in 1..Len(log) : pos(log[i].token) <= pos(c.token)
                 /\ (c.kind = "token_info")
                      <=> (\A i \in 1..Len(log) : log[i].token # c.token)

\* the first holder page of the second token is outstanding, and the calls
\* of the first token and the token-info fetch of the second have completed
C19_Witness ==
    /\ mode = "cross" /\ Len(token_addresses) = 2
    /\ inflight = { Call("holders", token_addresses[2], 0, 100) }
    /\ Len(log) = 4
    /\ log[1].kind = "token_info" /\ log[1].token = token_addresses[1]
    /\ log[2].kind = "holders" /\ log[2].token = token_addresses[1]
    /\ log[3].kind = "holders" /\ log[3].token = token_addresses[1]
    /\ log[4].kind = "token_info" /\ log[4].token = token_addresses[2]

\* C20: no page is requested twice: the holder offsets of a token are
\* 0, 100, 200, ... and the transfer pages are 1, 2, 3, ..., each requested
\* at most once and only after the previous page succeeded; a failed page
\* is never requested again.
C20_NoPageFetchedTwice ==
    LET IsPage(c) == c.kind \in { "holders", "transfers" }
        First(c) == IF c.kind = "holders" THEN 0 ELSE 1
        Step(c) == IF c.kind = "holders" THEN 100 ELSE 1
        Earlier(c, i) == { j \in 1..(i - 1) :
                             log[j].kind = c.kind /\ log[j].token = c.token }
        Last(S) == CHOOSE j \in S : \A k \in S : k <= j
        InOrder(c, i) ==
            /\ (Earlier(c, i) = {}) => c.cursor = First(c)
            /\ (Earlier(c, i) # {}) =>
                  /\ log[Last(Earlier(c, i))].ok
                  /\ c.cursor = log[Last(Earlier(c, i))].cursor + Step(c)
            /\ \A j \in Earlier(c, i) : log[j].cursor # c.cursor
    IN  /\ \A i \in 1..Len(log) : IsPage(log[i]) => InOrder(log[i], i)
        /\ \A c \in inflight : IsPage(c) => InOrder(c, Len(log) + 1)

\* both tokens had the offsets 0 and 100 requested, the second page of the
\* first token failed, and nothing was requested for that token afterwards
C20_Witness ==
    /\ mode = "cross" /\ pc = "done" /\ Len(token_addresses) = 2
    /\ Len(log) = 6
    /\ log[2].kind = "holders" /\ log[2].cursor = 0 /\ log[2].ok
    /\ log[3].kind = "holders" /\ log[3].cursor = 100 /\ ~log[3].ok
    /\ log[3].token = token_addresses[1]
    /\ log[4].kind = "token_info" /\ log[4].token = token_addresses[2]
    /\ log[5].kind = "holders" /\ log[5].cursor = 0
    /\ log[6].kind = "holders" /\ log[6].cursor = 100

\* C21: in get_all_token_traders a delay is taken between any two
\* consecutive transfer page fetches: page k + 1 is only requested when the
\* sleep that follows page k has completed.
C21_DelayBetweenPages ==
    mode = "traders" =>
        /\ \A c \in inflight :
             /\ c.kind = "transfers"
             /\ c.cursor = Len(log) + 1
             /\ delays >= c.cursor - 1
        /\ \A i \in 1..Len(log) : log[i].cursor = i
        /\ delays >= Len(log) - 1

\* page 3 is being requested, after two pages and two delays
C21_Witness ==
    /\ mode = "traders"
    /\ inflight = { Call("transfers", token_address, 3, 100) }
    /\ Len(log) = 2 /\ log[1].n = 100 /\ log[2].n = 100
    /\ delays = 2

C23_OrderIndependentOfIteration ==
    (mode = "cross" /\ response.body /\ Len(token_addresses) >= 2) =>
        \A order \in IterationOrders(CommonWallets(all_holder_sets)) :
            SortByAvgRank([ i \in 1..Len(order) |-> WalletResult(token_data, order[i]) ])
                = response.common_wallets

====
